---- MODULE Spec2Model ----
(***************************************************************************)
(* Model of the upload coordinator of the knowledge-app frontend:          *)
(* the UploadArea component (frontend/src/components/UploadArea.tsx).      *)
(*                                                                         *)
(* One action of the model is one JavaScript task of the component: an    *)
(* event handler, or the continuation of handleUpload that runs when the   *)
(* awaited axios.post settles. JavaScript runs each task to completion,    *)
(* so every setState call a task makes is part of the same action; the     *)
(* values passed to setStatus inside the task are kept, in order, in       *)
(* last.sets.                                                              *)
(***************************************************************************)
EXTENDS Integers, Sequences, FiniteSets, TLC

VARIABLES
    clientId,       \* useState(() => uuidv4())
    socket,         \* the WebSocket opened on mount: its url, its readyState
    processingMsg,  \* useState<string | null>(null)
    file,           \* useState<File | null>(null)
    status,         \* useState<UploadStatus>
    uploadedDocId,  \* useState<string | null>(null)
    uploads,        \* the handleUpload invocations awaiting a response
    last,           \* the last task that set component state, its setStatus calls
    split,          \* the chunk loop of lines 75-80 run on its own
    mounted,        \* the component is mounted: the effect's cleanup has not run
    opened          \* the number of WebSockets the effect has constructed

vars == <<clientId, socket, processingMsg, file, status, uploadedDocId,
          uploads, last, split, mounted, opened>>

----------------------------------------------------------------------------
(* Bounds of the model *)

\* handleUpload invocations that await a response at the same time
MaxUploads == 2

\* number of chunks of the largest selectable file
MaxChunks == 3

\* largest file size and chunk size the chunk loop is run with on its own
MaxSize == 12

MaxChunkSize == 5

----------------------------------------------------------------------------
(* Values *)

MiB == 1024 * 1024

CHUNK_SIZE == 5 * 1024 * 1024

\* null as a document id (a string or null)
Null == "null"

\* null as a File: name and size of no file
NoFile == [name |-> <<"null", 0>>, size |-> 0]

\* null as the processing notice
NoNotice == <<>>

\* a fixed message text; "Chunk ${i + 1} uploaded" is <<"Chunk uploaded", i + 1>>
Text(s) == <<s, 0>>

\* UploadStatus.message is optional
NoMessage == Text("undefined")

\* a form field that is not appended, a response field that is missing
Absent == "absent"

\* values uuidv4() can return
ClientIds == {"uuid-1", "uuid-2"}

\* identifiers the server assigns
DocIds == {"d1", "d2"}

\* a file of n chunks whose last chunk is 2 MiB
BigFile(n) ==
    [name |-> <<"big", n>>, size |-> (n - 1) * CHUNK_SIZE + 2 * MiB]

\* the files the user can pick, name and size in bytes: one of exactly the
\* chunk size, one of MaxChunks chunks
Files ==
    {[name |-> <<"edge", 1>>, size |-> CHUNK_SIZE], BigFile(MaxChunks)}

\* err?.response?.data?.detail
Details == {Absent, "server detail"}

\* payloads the server can push on the WebSocket
Messages ==
    {[json |-> TRUE, event |-> "processing_complete", document_id |-> d,
      filename |-> <<"doc", 1>>] : d \in DocIds}
    \cup {[json |-> TRUE, event |-> "progress", document_id |-> "d1",
           filename |-> <<"doc", 1>>],
          [json |-> FALSE, event |-> Absent, document_id |-> Absent,
           filename |-> <<"doc", 1>>]}

----------------------------------------------------------------------------
(* Pure helpers *)

\* Math.ceil(a / b) for a >= 0, b > 0
Ceil(a, b) == (a + b - 1) \div b

\* Math.min
Min(a, b) == IF a <= b THEN a ELSE b

\* the percentage rounded up instead: Math.ceil((num / den) * 100)
CeilPercent(num, den) == (100 * num + den - 1) \div den

\* the fraction scaled to 1000 instead of 100
RoundPermille(num, den) == (2000 * num + den) \div (2 * den)

\* Math.round((num / den) * 100) for num >= 0, den > 0: half rounds up
RoundPercent(num, den) == (200 * num + den) \div (2 * den)

\* a || b on strings: the empty or missing string is falsy
OrElse(a, b) == IF a = "" \/ a = Absent THEN b ELSE a

\* Math.ceil(file.size / CHUNK_SIZE)
TotalChunks(f) == Ceil(f.size, CHUNK_SIZE)

\* the comparison made strict: a file of exactly the chunk size is chunked
IsSmallStrict(f) == f.size < CHUNK_SIZE

\* file.size <= CHUNK_SIZE
IsSmall(f) == f.size <= CHUNK_SIZE

\* the POST /api/v1/documents/upload form
WholeRequest(f) ==
    [kind |-> "whole", filename |-> f.name, start |-> 0, end |-> f.size,
     document_id |-> Absent, chunk_index |-> -1, total_chunks |-> -1,
     client_id |-> clientId]

\* const start = i * CHUNK_SIZE, for a chunk size c
ChunkStart(i, c) == i * c

\* the end left unclamped: the last chunk reaches past the file
ChunkEndUnclamped(i, c, size) == ChunkStart(i, c) + c

\* const end = Math.min(start + CHUNK_SIZE, file.size), for a chunk size c
ChunkEnd(i, c, size) == Min(ChunkStart(i, c) + c, size)

\* the client id appended to every chunk form
ChunkClientIdAlways(i) == clientId

\* if (i === 0) chunkForm.append('client_id', clientId)
ChunkClientId(i) == IF i = 0 THEN clientId ELSE Absent

\* a chunk form that names the file selected when the chunk is sent
ChunkRequestOfSelectedFile(f, totalChunks, documentId, i) ==
    [kind |-> "chunk", filename |-> file.name,
     start |-> ChunkStart(i, CHUNK_SIZE),
     end |-> ChunkEnd(i, CHUNK_SIZE, f.size),
     document_id |-> OrElse(documentId, "new"),
     chunk_index |-> i, total_chunks |-> totalChunks,
     client_id |-> ChunkClientId(i)]

\* the POST /api/v1/documents/upload-chunked form of chunk i
ChunkRequest(f, totalChunks, documentId, i) ==
    [kind |-> "chunk", filename |-> f.name,
     start |-> ChunkStart(i, CHUNK_SIZE),
     end |-> ChunkEnd(i, CHUNK_SIZE, f.size),
     document_id |-> OrElse(documentId, "new"),
     chunk_index |-> i, total_chunks |-> totalChunks,
     client_id |-> ChunkClientId(i)]

\* no request
NoRequest ==
    [kind |-> "none", filename |-> NoFile.name, start |-> 0, end |-> 0,
     document_id |-> Absent, chunk_index |-> -1, total_chunks |-> -1,
     client_id |-> Absent]

\* no handleUpload invocation
NoUpload ==
    [file |-> NoFile, totalChunks |-> 0, i |-> 0, documentId |-> "",
     pc |-> "none", req |-> NoRequest, sent |-> <<>>, results |-> <<>>]

\* the chunk loop not run on its own
NoSplit == [size |-> 0, chunkSize |-> 1, totalChunks |-> 0, i |-> 0,
            ranges |-> <<>>]

\* a task: the handler, the invocation it belongs to as the task leaves it,
\* and the values it passed to setStatus, in order
Task(op, u, sets) == [op |-> op, u |-> u, sets |-> sets]

\* the state left by a sequence of setStatus calls made in one task
Final(sets) == sets[Len(sets)]

----------------------------------------------------------------------------
(* Initial state: the component has mounted and its effect has run *)

Mounted ==
    /\ clientId \in ClientIds
    /\ socket = [url |-> clientId, readyState |-> "connecting"]
    /\ processingMsg = NoNotice
    /\ file = NoFile
    /\ status = [progress |-> 0, status |-> "idle", message |-> NoMessage]
    /\ uploadedDocId = Null
    /\ uploads = <<>>
    /\ last = Task("mount", NoUpload, <<>>)
    /\ mounted = TRUE
    /\ opened = 1

Init ==
    /\ Mounted
    /\ split = NoSplit

----------------------------------------------------------------------------
(* WebSocket handlers *)

\* socket.onopen
OnOpen ==
    /\ mounted
    /\ socket.readyState = "connecting"
    /\ socket' = [socket EXCEPT !.readyState = "open"]
    /\ UNCHANGED <<mounted, opened, split, clientId, processingMsg, file,
                   status, uploadedDocId, uploads, last>>

\* an onclose that fails the upload session
OnCloseFailsUpload ==
    /\ mounted
    /\ socket.readyState \in {"connecting", "open"}
    /\ socket' = [socket EXCEPT !.readyState = "closed"]
    /\ status' = [status EXCEPT !.status = "error"]
    /\ UNCHANGED <<mounted, opened, split, clientId, processingMsg, file,
                   uploadedDocId, uploads, last>>

\* an onclose that opens a new WebSocket
OnCloseReconnects ==
    /\ mounted
    /\ socket.readyState \in {"connecting", "open"}
    /\ socket' = [socket EXCEPT !.readyState = "connecting"]
    /\ opened' = opened + 1
    /\ UNCHANGED <<mounted, split, clientId, processingMsg, file, status,
                   uploadedDocId, uploads, last>>

\* socket.onclose
OnClose ==
    /\ mounted
    /\ socket.readyState \in {"connecting", "open"}
    /\ socket' = [socket EXCEPT !.readyState = "closed"]
    /\ UNCHANGED <<mounted, opened, split, clientId, processingMsg, file,
                   status, uploadedDocId, uploads, last>>

\* the effect's cleanup on unmount: socket.close(); the model follows the
\* component no further
Unmount ==
    /\ mounted
    /\ mounted' = FALSE
    /\ socket' = [socket EXCEPT !.readyState = "closed"]
    /\ UNCHANGED <<opened, split, clientId, processingMsg, file, status,
                   uploadedDocId, uploads, last>>

\* an updater that also fills the progress bar
CompletedByEventAt100(s) ==
    [s EXCEPT !.status = "completed", !.progress = 100,
              !.message = Text("Processing complete!")]

\* the status after the updater s => ({...s, status: 'completed', message})
CompletedByEvent(s) ==
    [s EXCEPT !.status = "completed", !.message = Text("Processing complete!")]

\* an onmessage that fails the session on a payload it cannot use
OnMessageRejects(m) ==
    /\ mounted
    /\ socket.readyState = "open"
    /\ IF m.json /\ m.event = "processing_complete"
         THEN /\ processingMsg' = <<m.filename, m.document_id>>
              /\ status' = CompletedByEvent(status)
              /\ last' = Task("onmessage", NoUpload, <<CompletedByEvent(status)>>)
         ELSE /\ status' = [status EXCEPT !.status = "error"]
              /\ UNCHANGED <<processingMsg, last>>
    /\ UNCHANGED <<mounted, opened, split, clientId, socket, file,
                   uploadedDocId, uploads>>

\* an onmessage that ends the running chunk loops
OnMessageStopsUploads(m) ==
    /\ mounted
    /\ socket.readyState = "open"
    /\ IF m.json /\ m.event = "processing_complete"
         THEN /\ processingMsg' = <<m.filename, m.document_id>>
              /\ status' = CompletedByEvent(status)
              /\ last' = Task("onmessage", NoUpload, <<CompletedByEvent(status)>>)
              /\ uploads' = <<>>
         ELSE UNCHANGED <<processingMsg, status, last, uploads>>
    /\ UNCHANGED <<mounted, opened, split, clientId, socket, file,
                   uploadedDocId>>

\* socket.onmessage
OnMessage(m) ==
    /\ mounted
    /\ socket.readyState = "open"
    /\ IF m.json /\ m.event = "processing_complete"
         THEN /\ processingMsg' = <<m.filename, m.document_id>>
              /\ status' = CompletedByEvent(status)
              /\ last' = Task("onmessage", NoUpload, <<CompletedByEvent(status)>>)
         ELSE UNCHANGED <<processingMsg, status, last>>
    /\ UNCHANGED <<mounted, opened, split, clientId, socket, file,
                   uploadedDocId, uploads>>

----------------------------------------------------------------------------
(* File selection *)

\* a handleFileChange that leaves the stored document id in place
handleFileChangeKeepsId(f) ==
    /\ mounted
    /\ IF f # NoFile
         THEN /\ file' = f
              /\ status' = [progress |-> 0, status |-> "idle",
                            message |-> NoMessage]
              /\ last' = Task("select", NoUpload, <<status'>>)
         ELSE UNCHANGED <<file, status, last>>
    /\ UNCHANGED <<mounted, opened, split, clientId, socket, processingMsg,
                   uploads, uploadedDocId>>

\* handleFileChange with e.target.files[0] = f (NoFile: the dialog was cancelled)
handleFileChange(f) ==
    /\ mounted
    /\ IF f # NoFile
         THEN /\ file' = f
              /\ status' = [progress |-> 0, status |-> "idle",
                            message |-> NoMessage]
              /\ uploadedDocId' = Null
              /\ last' = Task("select", NoUpload, <<status'>>)
         ELSE UNCHANGED <<file, status, uploadedDocId, last>>
    /\ UNCHANGED <<mounted, opened, split, clientId, socket, processingMsg,
                   uploads>>

----------------------------------------------------------------------------
(* handleUpload *)

\* the Upload button is rendered inside {file && (...)}
UploadButtonRendered == file # NoFile

\* disabled={status.status === 'uploading' || status.status === 'assembling'}
UploadButtonDisabled == status.status \in {"uploading", "assembling"}

Uploading0 == [progress |-> 0, status |-> "uploading", message |-> NoMessage]

\* the invocation at its first await: the locals of handleUpload, the request
\* it awaits (req), the chunk_index of every request it has issued (sent) and
\* the outcomes it has seen (results)
StartUpload(f) ==
    LET req == IF IsSmall(f) THEN WholeRequest(f)
                             ELSE ChunkRequest(f, TotalChunks(f), "", 0)
    IN  [file |-> f,
         totalChunks |-> IF IsSmall(f) THEN 0 ELSE TotalChunks(f),
         i |-> 0, documentId |-> "",
         pc |-> IF IsSmall(f) THEN "whole" ELSE "chunk",
         req |-> req, sent |-> <<req.chunk_index>>, results |-> <<>>]

\* handleUpload from its start to the first await
handleUpload ==
    /\ mounted
    /\ Len(uploads) < MaxUploads
    /\ IF file = NoFile
         THEN UNCHANGED <<status, uploads, last>>
         ELSE /\ status' = Uploading0
              /\ uploads' = Append(uploads, StartUpload(file))
              /\ last' = Task("upload", StartUpload(file), <<Uploading0>>)
    /\ UNCHANGED <<mounted, opened, split, clientId, socket, processingMsg,
                   file, uploadedDocId>>

\* a click on the Upload button
ClickUpload ==
    /\ UploadButtonRendered
    /\ ~UploadButtonDisabled
    /\ handleUpload

\* the invocations still awaiting a response once invocation k has returned
Without(k) == SubSeq(uploads, 1, k - 1) \o SubSeq(uploads, k + 1, Len(uploads))

UploadComplete ==
    [progress |-> 100, status |-> "completed",
     message |-> Text("Upload complete!")]

\* the whole-file post resolves with res.data.id = id
WholeOk(k, id) ==
    LET u == [uploads[k] EXCEPT !.pc = "done", !.req = NoRequest,
                                !.results = Append(@, "ok")]
    IN  /\ mounted
        /\ uploads[k].pc = "whole"
        /\ status' = UploadComplete
        /\ uploadedDocId' = id
        /\ uploads' = Without(k)
        /\ last' = Task("wholeOk", u, <<UploadComplete>>)
        /\ UNCHANGED <<mounted, opened, split, clientId, socket,
                       processingMsg, file>>

WholeError(detail) ==
    [progress |-> 0, status |-> "error",
     message |-> Text(OrElse(detail, "Upload failed."))]

\* the whole-file post rejects
WholeFail(k, detail) ==
    LET u == [uploads[k] EXCEPT !.pc = "done", !.req = NoRequest,
                                !.results = Append(@, "fail")]
    IN  /\ mounted
        /\ uploads[k].pc = "whole"
        /\ status' = WholeError(detail)
        /\ uploads' = Without(k)
        /\ last' = Task("wholeFail", u, <<WholeError(detail)>>)
        /\ UNCHANGED <<mounted, opened, split, clientId, socket,
                       processingMsg, file, uploadedDocId>>

\* setStatus after chunk i of n was acknowledged
ChunkUploaded(i, n) ==
    [progress |-> RoundPercent(i + 1, n), status |-> "uploading",
     message |-> <<"Chunk uploaded", i + 1>>]

Assembling ==
    [progress |-> 100, status |-> "assembling",
     message |-> Text("Assembling and processing...")]

\* setStatus in the catch of chunk i of n
ChunkError(i, n, detail) ==
    [progress |-> RoundPercent(i + 1, n), status |-> "error",
     message |-> Text(OrElse(detail, "Chunk upload failed."))]

\* the loop condition off by one: i <= totalChunks
LoopContinuesOffByOne(i, n) == i + 1 <= n

\* a loop without its bound
LoopNeverEnds(i, n) == TRUE

\* the loop condition i < totalChunks after i++
LoopContinues(i, n) == i + 1 < n

\* the catch block without its break
NoBreakOnFail == FALSE

\* the catch block leaves the loop
BreakOnFail == TRUE

\* the setStatus calls after the loop
SetsAfterLoop == <<UploadComplete>>

\* the setStatus calls in the try block once chunk i's post has resolved
SetsOnChunkOk(i, n) ==
    IF i = n - 1
      THEN <<ChunkUploaded(i, n), Assembling>>
      ELSE <<ChunkUploaded(i, n)>>

\* the setStatus calls in the catch block of chunk i
SetsOnChunkFail(i, n, detail) == <<ChunkError(i, n, detail)>>

\* handleUpload from the settling of chunk i's post to the next await or to
\* its end: u is the invocation after the try/catch, sets its setStatus calls
Continue(k, op, u, sets, leave) ==
    IF ~leave /\ LoopContinues(u.i, u.totalChunks)
      THEN LET req == ChunkRequest(u.file, u.totalChunks, u.documentId,
                                   u.i + 1)
               v == [u EXCEPT !.i = u.i + 1, !.req = req,
                              !.sent = Append(@, req.chunk_index)]
           IN  /\ status' = Final(sets)
               /\ uploads' = [uploads EXCEPT ![k] = v]
               /\ last' = Task(op, v, sets)
               /\ UNCHANGED uploadedDocId
      ELSE LET v == [u EXCEPT !.pc = "done", !.req = NoRequest]
           IN  /\ status' = Final(sets \o SetsAfterLoop)
               /\ uploadedDocId' = u.documentId
               /\ uploads' = Without(k)
               /\ last' = Task(op, v, sets \o SetsAfterLoop)

\* the chunk post of invocation k resolves with res.data.document_id = id
ChunkOk(k, id) ==
    LET u == [uploads[k] EXCEPT !.documentId = OrElse(id, @),
                                !.results = Append(@, "ok")]
    IN  /\ mounted
        /\ uploads[k].pc = "chunk"
        /\ Continue(k, "chunkOk", u, SetsOnChunkOk(u.i, u.totalChunks), FALSE)
        /\ UNCHANGED <<mounted, opened, split, clientId, socket,
                       processingMsg, file>>

\* the chunk post of invocation k rejects
ChunkFail(k, detail) ==
    LET u == [uploads[k] EXCEPT !.results = Append(@, "fail")]
    IN  /\ mounted
        /\ uploads[k].pc = "chunk"
        /\ Continue(k, "chunkFail", u,
                    SetsOnChunkFail(u.i, u.totalChunks, detail), BreakOnFail)
        /\ UNCHANGED <<mounted, opened, split, clientId, socket,
                       processingMsg, file>>

----------------------------------------------------------------------------
(* Specification *)

Next ==
    \/ OnOpen
    \/ OnClose
    \/ Unmount
    \/ \E m \in Messages : OnMessage(m)
    \/ \E f \in Files \cup {NoFile} : handleFileChange(f)
    \/ ClickUpload
    \/ \E k \in 1..Len(uploads), id \in DocIds : WholeOk(k, id)
    \/ \E k \in 1..Len(uploads), d \in Details : WholeFail(k, d)
    \/ \E k \in 1..Len(uploads), id \in DocIds \cup {""} : ChunkOk(k, id)
    \/ \E k \in 1..Len(uploads), d \in Details : ChunkFail(k, d)

Spec == Init /\ [][Next]_vars

\* the request the oldest running invocation awaits is answered
Responds ==
    /\ uploads # <<>>
    /\ \/ \E id \in DocIds : WholeOk(1, id)
       \/ \E d \in Details : WholeFail(1, d)
       \/ \E id \in DocIds \cup {""} : ChunkOk(1, id)
       \/ \E d \in Details : ChunkFail(1, d)

\* the component without its WebSocket handlers, which touch no invocation
NextTransfers ==
    \/ Unmount
    \/ \E f \in Files \cup {NoFile} : handleFileChange(f)
    \/ ClickUpload
    \/ \E k \in 1..Len(uploads), id \in DocIds : WholeOk(k, id)
    \/ \E k \in 1..Len(uploads), d \in Details : WholeFail(k, d)
    \/ \E k \in 1..Len(uploads), id \in DocIds \cup {""} : ChunkOk(k, id)
    \/ \E k \in 1..Len(uploads), d \in Details : ChunkFail(k, d)

\* every request is answered in the end: axios settles each post
FairSpec == Init /\ [][NextTransfers]_vars /\ WF_vars(Responds)

\* the component used without selecting a file while an upload is running
NextSteadyFile ==
    \/ OnOpen
    \/ OnClose
    \/ Unmount
    \/ \E m \in Messages : OnMessage(m)
    \/ \E f \in Files \cup {NoFile} : uploads = <<>> /\ handleFileChange(f)
    \/ ClickUpload
    \/ \E k \in 1..Len(uploads), id \in DocIds : WholeOk(k, id)
    \/ \E k \in 1..Len(uploads), d \in Details : WholeFail(k, d)
    \/ \E k \in 1..Len(uploads), id \in DocIds \cup {""} : ChunkOk(k, id)
    \/ \E k \in 1..Len(uploads), d \in Details : ChunkFail(k, d)

SpecSteadyFile == Init /\ [][NextSteadyFile]_vars

\* the component used with the 12 MiB file only
NextTwelveMiB ==
    \/ OnOpen
    \/ OnClose
    \/ Unmount
    \/ \E m \in Messages : OnMessage(m)
    \/ handleFileChange(BigFile(3))
    \/ ClickUpload
    \/ \E k \in 1..Len(uploads), id \in DocIds \cup {""} : ChunkOk(k, id)
    \/ \E k \in 1..Len(uploads), d \in Details : ChunkFail(k, d)

SpecTwelveMiB == Init /\ [][NextTwelveMiB]_vars

\* a File of no bytes
EmptyFile == [name |-> <<"empty", 0>>, size |-> 0]

\* the component used with a zero-length file only
NextEmptyFile ==
    \/ OnOpen
    \/ OnClose
    \/ Unmount
    \/ \E m \in Messages : OnMessage(m)
    \/ \E f \in {EmptyFile, NoFile} : handleFileChange(f)
    \/ ClickUpload
    \/ \E k \in 1..Len(uploads), id \in DocIds : WholeOk(k, id)
    \/ \E k \in 1..Len(uploads), d \in Details : WholeFail(k, d)

SpecEmptyFile == Init /\ [][NextEmptyFile]_vars

----------------------------------------------------------------------------
(* The chunk loop on its own: lines 75-80 for any file size and chunk size *)

\* const totalChunks = Math.ceil(file.size / CHUNK_SIZE), before the loop
SplitInit ==
    /\ Mounted
    /\ split \in {[size |-> s, chunkSize |-> c, totalChunks |-> Ceil(s, c),
                   i |-> 0, ranges |-> <<>>] :
                      s \in 0..MaxSize, c \in 1..MaxChunkSize}

\* one iteration: start, end and file.slice(start, end)
SplitStep ==
    /\ split.i < split.totalChunks
    /\ split' =
         [split EXCEPT
            !.i = @ + 1,
            !.ranges =
               Append(@, [start |-> ChunkStart(split.i, split.chunkSize),
                          end |-> ChunkEnd(split.i, split.chunkSize,
                                           split.size)])]
    /\ UNCHANGED <<clientId, socket, processingMsg, file, status,
                   uploadedDocId, uploads, last, mounted, opened>>

SplitNext == SplitStep

SplitSpec == SplitInit /\ [][SplitNext]_vars

----------------------------------------------------------------------------
(* Vocabulary of the properties *)

\* the processing_complete events
ProcessingComplete ==
    {m \in Messages : m.json /\ m.event = "processing_complete"}

\* the step is the handling of the processing_complete event m
Handles(m) == m \in ProcessingComplete /\ OnMessage(m)

\* the invocation uploads a file larger than the chunk size
Chunked(u) == u.pc # "none" /\ u.file.size > 5 * 1024 * 1024

\* the number N of chunks of the invocation's file: ceil(size / chunk size)
ChunksOf(u) ==
    CHOOSE n \in 0..(MaxChunks + 1) :
        /\ n * (5 * 1024 * 1024) >= u.file.size
        /\ (n - 1) * (5 * 1024 * 1024) < u.file.size

\* every response the invocation has seen was a success
AllOk(u) == \A j \in 1..Len(u.results) : u.results[j] = "ok"

\* the invocations the state knows: those awaiting a response, and the one
\* the last task belonged to
Invocations ==
    {uploads[k] : k \in 1..Len(uploads)}
    \cup (IF last.u.pc = "none" THEN {} ELSE {last.u})

\* the last task ended a chunked invocation all of whose N chunks succeeded,
\* and nothing has touched the session since
LastChunkSucceeded ==
    /\ last.op = "chunkOk"
    /\ last.u.pc = "done"
    /\ Chunked(last.u)

\* the last task ended a chunked invocation because a chunk failed
ChunkFailed == last.op = "chunkFail" /\ Chunked(last.u)

\* the index k of the chunk that failed
FailedChunk == Len(last.u.results) - 1

----------------------------------------------------------------------------
(* C1: when all N chunks of a chunked upload have succeeded the session is   *)
(* Assembling with progress 100, and not Completed, for as long as no        *)
(* processing_complete event has been handled: the last chunk's success      *)
(* alone never produces Completed.                                           *)

C1_AssemblingAfterLastChunk ==
    LastChunkSucceeded =>
        /\ status.status = "assembling"
        /\ status.progress = 100

(* C2: when a chunk transfer fails, the state handleUpload leaves is Failed  *)
(* (status 'error') with the error message, not Completed.                   *)

C2_FailedAfterChunkFailure ==
    ChunkFailed =>
        /\ status.status = "error"
        /\ status.message = last.sets[1].message

(* C3: a processing_complete event whose document id is not that of a        *)
(* session in Assembling is discarded: status, progress, message and stored  *)
(* document id are unchanged by it.                                          *)

C3_StaleEventDiscarded ==
    [][\A m \in ProcessingComplete :
          (Handles(m) /\ ~(status.status = "assembling"
                           /\ uploadedDocId = m.document_id))
          => UNCHANGED <<status, uploadedDocId>>]_vars

(* C4: a processing_complete event handled while the session is Idle,        *)
(* Transferring or Failed never moves the session to Completed.              *)

C4_EventOnlyActsOnAssembling ==
    [][\A m \in ProcessingComplete :
          (Handles(m) /\ status.status \in {"idle", "uploading", "error"})
          => status'.status # "completed"]_vars

(* C5: a processing_complete event whose document id is that of a session   *)
(* in Assembling takes that session to Completed and changes no other        *)
(* session: when the event for the document of a chunked upload whose chunks *)
(* all succeeded is handled, the session is Assembling before it and         *)
(* Completed after it, and no running invocation is touched.                 *)

C5_MatchingEventCompletesAssembling ==
    [][\A m \in ProcessingComplete :
          (Handles(m) /\ LastChunkSucceeded /\ uploadedDocId = m.document_id)
          => /\ status.status = "assembling"
             /\ status'.status = "completed"
             /\ UNCHANGED <<uploads, uploadedDocId>>]_vars

(* C6, as stated: an upload of a file of size <= chunk size never passes     *)
(* through Transferring ('uploading') or Assembling.                         *)

C6_SmallFileNeverTransferring ==
    (last.u.pc # "none" /\ last.u.file.size <= 5 * 1024 * 1024) =>
        \A j \in 1..Len(last.sets) :
            last.sets[j].status \notin {"uploading", "assembling"}

(* C6, amended: for a file of size <= chunk size handleUpload issues exactly *)
(* one request, the whole-file post; it sets the session to 'uploading' with *)
(* progress 0 as it issues the post, and the success of the post takes the   *)
(* session to Completed with progress 100 directly, never through            *)
(* Assembling.                                                               *)

C6_SmallFileDirect ==
    /\ \A u \in Invocations :
          u.file.size <= 5 * 1024 * 1024 =>
              /\ u.pc \in {"whole", "done"}
              /\ u.sent = <<-1>>
              /\ Len(u.results) <= 1
              /\ u.pc = "whole" => (u.req.kind = "whole" /\ u.results = <<>>)
    /\ (last.u.pc # "none" /\ last.u.file.size <= 5 * 1024 * 1024) =>
          /\ last.op \in {"upload", "wholeOk", "wholeFail"}
          /\ \A j \in 1..Len(last.sets) : last.sets[j].status # "assembling"
          /\ last.op = "upload" =>
                (status.status = "uploading" /\ status.progress = 0)
          /\ last.op = "wholeOk" =>
                /\ last.u.results = <<"ok">>
                /\ Len(last.sets) = 1
                /\ status.status = "completed"
                /\ status.progress = 100

C6_Witness ==
    /\ last.op = "wholeOk"
    /\ last.u.file.size = 5 * 1024 * 1024
    /\ status.status = "completed"

(* C7: a chunked upload of N chunks that all succeed issues exactly N chunk  *)
(* requests, with chunk_index 0, 1, ..., N-1 in this order, and the request  *)
(* for chunk i+1 is issued only after the success response for chunk i.      *)

C7_ChunksInOrder ==
    \A u \in Invocations :
        Chunked(u) =>
            /\ \A j \in 1..Len(u.sent) : u.sent[j] = j - 1
            /\ Len(u.sent) <= ChunksOf(u)
            /\ Len(u.sent) <= Len(u.results) + 1
            /\ \A j \in 1..(Len(u.sent) - 1) : u.results[j] = "ok"
            /\ u.pc = "chunk" =>
                  /\ u.req.kind = "chunk"
                  /\ u.req.chunk_index = Len(u.sent) - 1
                  /\ Len(u.results) = Len(u.sent) - 1
            /\ (u.pc = "done" /\ AllOk(u)) =>
                  /\ Len(u.sent) = ChunksOf(u)
                  /\ Len(u.results) = ChunksOf(u)

C7_Witness ==
    /\ LastChunkSucceeded
    /\ AllOk(last.u)
    /\ ChunksOf(last.u) >= 3
    /\ Len(last.u.sent) = ChunksOf(last.u)

(* C8: if chunk k of a chunked upload fails, the invocation issues no chunk  *)
(* request with an index greater than k and does not send chunk k again.     *)

C8_NoChunkAfterFailure ==
    /\ \A k \in 1..Len(uploads) : AllOk(uploads[k])
    /\ ChunkFailed =>
          /\ last.u.pc = "done"
          /\ last.u.req = NoRequest
          /\ Len(last.u.sent) = Len(last.u.results)
          /\ last.u.sent[Len(last.u.sent)] = FailedChunk
          /\ \A j \in 1..FailedChunk : last.u.results[j] = "ok"
          /\ \A j \in 1..Len(last.u.sent) : last.u.sent[j] = j - 1

C8_Witness ==
    /\ ChunkFailed
    /\ FailedChunk = 1
    /\ last.u.results = <<"ok", "fail">>
    /\ uploads = <<>>

(* C9: when chunk k fails after chunks 0..k-1 succeeded, the progress        *)
(* recorded with the Failed state is that of k completed chunks,             *)
(* round(100 * k / N), not that of k+1 chunks.                               *)

C9_FailedProgressCountsCompleted ==
    ChunkFailed =>
        /\ last.sets[1].status = "error"
        /\ last.sets[1].progress = RoundPercent(FailedChunk, ChunksOf(last.u))

(* C10: in a chunked upload of N >= 2 chunks progress is 100 exactly when    *)
(* the last chunk has succeeded: it is below 100 after fewer than N          *)
(* successes and whenever a chunk failed, and 100 after the N-th success.    *)

C10_HundredOnlyAfterLastSuccess ==
    (last.op \in {"chunkOk", "chunkFail"} /\ Chunked(last.u)) =>
        (status.progress = 100
            <=> (AllOk(last.u) /\ Len(last.u.results) = ChunksOf(last.u)))

(* C11: within one handleUpload invocation, no file being selected          *)
(* meanwhile, the progress values of the session never decrease: not by a    *)
(* chunk response, not by a channel event, not by the end of the upload.     *)
(* Checked under SpecSteadyFile, where no file is selected while an          *)
(* invocation runs; the step that starts an invocation is left out.          *)

C12_OneRequestOutstanding == Len(uploads) <= 1

(* C13: Completed and Failed are terminal until a file is selected: no       *)
(* transfer response, channel event or click on Upload changes the status    *)
(* from 'completed' or 'error'.                                              *)

C13_TerminalUntilSelect ==
    [][(status.status \in {"completed", "error"}
        /\ ~(\E f \in Files : handleFileChange(f)))
       => status'.status = status.status]_vars

(* C14: handleUpload takes effect only from Idle with a file selected: run   *)
(* in Completed or Failed, or with no file, it issues no request and leaves  *)
(* the session unchanged.                                                    *)

C14_UploadOnlyFromIdle ==
    [][(ClickUpload /\ (status.status # "idle" \/ file = NoFile))
       => UNCHANGED <<status, uploads, uploadedDocId>>]_vars

(* C15: while the session is Transferring or Assembling, selecting a file    *)
(* does not reset its status, progress or document id.                       *)

C15_NoSelectWhileTransferring ==
    [][\A f \in Files :
          (handleFileChange(f) /\ status.status \in {"uploading", "assembling"})
          => UNCHANGED <<status, uploadedDocId>>]_vars

(* C16: once a file selection has reset the session to Idle, a response to a *)
(* transfer issued by an earlier handleUpload changes neither the status,    *)
(* the progress nor the stored document id of the new session.               *)

C16_OldResponsesIgnored ==
    [][(last.op = "select"
        /\ last'.op \in {"wholeOk", "wholeFail", "chunkOk", "chunkFail"})
       => UNCHANGED <<status, uploadedDocId>>]_vars

(* C17: for every file size >= 0 and chunk size > 0 the ranges the chunk     *)
(* loop computes are contiguous (each starts where the one before ends, the  *)
(* first at 0), never longer than the chunk size, and once the loop is done  *)
(* they end at the file size and their number is ceil(size / chunk size).    *)
(* Checked under SplitSpec.                                                  *)

C17_RangesPartitionFile ==
    LET r == split.ranges
        c == split.chunkSize
        n == Len(r)
    IN  /\ \A j \in 1..n :
              r[j].start <= r[j].end /\ r[j].end - r[j].start <= c
        /\ n >= 1 => r[1].start = 0
        /\ \A j \in 1..(n - 1) : r[j + 1].start = r[j].end
        /\ split.i = split.totalChunks
              => /\ n = split.totalChunks
                 /\ n * c >= split.size
                 /\ n >= 1 => (n - 1) * c < split.size
                 /\ n >= 1 => r[n].end = split.size
                 /\ n = 0 => split.size = 0

C17_Witness ==
    /\ split.i = split.totalChunks
    /\ Len(split.ranges) >= 3
    /\ LET r == split.ranges[Len(split.ranges)] 
       IN  r.end - r.start < split.chunkSize /\ r.end = split.size

(* C18: with the 5 MiB chunk size a 12 MiB file is uploaded in 3 chunks of   *)
(* 5, 5 and 2 MiB, and the progress set after the three chunk successes is   *)
(* 33, 67, 100. Checked under SpecTwelveMiB, where the file selected is the  *)
(* 12 MiB one.                                                               *)

\* the length of chunk i of a 12 MiB file, the progress set when it succeeds
TwelveMiBChunk(i) == IF i = 2 THEN 2 * 1024 * 1024 ELSE 5 * 1024 * 1024

TwelveMiBProgress(i) == IF i = 0 THEN 33 ELSE IF i = 1 THEN 67 ELSE 100

\* the progress the scenario is described with
TwelveMiBProgressCeil(i) == IF i = 0 THEN 34 ELSE IF i = 1 THEN 67 ELSE 100

\* every request of an invocation is one of the three chunks, and the task  \*
\* run by a chunk's success first sets the progress of that chunk           \*
TwelveMiBUpload(progress(_)) ==
    /\ \A u \in Invocations :
          u.file.size = 12 * 1024 * 1024
          => /\ u.totalChunks = 3
             /\ u.req.kind \in {"chunk", "none"}
             /\ u.req.kind = "chunk"
                  => /\ u.req.chunk_index \in 0..2
                     /\ u.req.start = 5 * 1024 * 1024 * u.req.chunk_index
                     /\ u.req.end - u.req.start
                           = TwelveMiBChunk(u.req.chunk_index)
                     /\ u.req.total_chunks = 3
    /\ (last.op = "chunkOk" /\ last.u.file.size = 12 * 1024 * 1024)
          => LET i == Len(last.u.results) - 1
             IN  /\ i \in 0..2
                 /\ last.sets[1].status = "uploading"
                 /\ last.sets[1].progress = progress(i)

C18_TwelveMiBScenario == TwelveMiBUpload(TwelveMiBProgress)

C18_TwelveMiBScenarioCeil == TwelveMiBUpload(TwelveMiBProgressCeil)

C18_Witness ==
    /\ last.op = "chunkOk"
    /\ last.u.file.size = 12 * 1024 * 1024
    /\ Len(last.u.results) = 3
    /\ last.u.sent = <<0, 1, 2>>
    /\ last.sets[1].progress = 100

(* C19: when the whole-file post fails, the session is left Failed with the  *)
(* error message of the response (or 'Upload failed.'), the invocation       *)
(* issues no further request, and no document id is stored: the component    *)
(* shows no uploaded document.                                               *)

C19_WholeFailureStoresNoId ==
    last.op = "wholeFail"
      => /\ status.status = "error"
         /\ status.message \in {Text("server detail"), Text("Upload failed.")}
         /\ last.u.pc = "done"
         /\ last.u.req.kind = "none"
         /\ uploadedDocId = "null"

(* C20: the form of chunk i carries client_id exactly when i = 0, the        *)
(* whole-file form always carries it, and every client_id sent is the id in  *)
(* the path of the WebSocket the component opened.                           *)

C20_ClientIdOnFirstRequest ==
    \A u \in Invocations :
       /\ u.req.kind = "chunk"
            => (u.req.client_id # "absent" <=> u.req.chunk_index = 0)
       /\ u.req.kind = "whole" => u.req.client_id # "absent"
       /\ (u.req.kind # "none" /\ u.req.client_id # "absent")
            => u.req.client_id = socket.url

C20_Witness ==
    \E j, k \in 1..Len(uploads) :
       /\ uploads[j].req.kind = "chunk"
       /\ uploads[j].req.chunk_index = 1
       /\ uploads[j].req.client_id = "absent"
       /\ uploads[k].req.chunk_index = 0
       /\ uploads[k].req.client_id = "uuid-2"
       /\ socket.url = "uuid-2"

(* C21: a close or an error of the WebSocket changes no upload session: the  *)
(* status with its progress and message, the stored document id, the file    *)
(* and the running invocations with their requests are as before, in         *)
(* whatever state the socket closes; the chunk loop goes on afterwards.      *)

C21_CloseChangesNoSession ==
    [][(mounted' /\ socket.readyState # "closed"
        /\ socket'.readyState = "closed")
       => UNCHANGED <<status, uploadedDocId, file, uploads, last>>]_vars

\* a chunk was acknowledged and the next one requested with the socket closed
C21_Witness ==
    /\ mounted
    /\ socket.readyState = "closed"
    /\ last.op = "chunkOk"
    /\ last.u.pc = "chunk"
    /\ last.u.req.chunk_index = 2
    /\ Len(uploads) = 1
    /\ status = [progress |-> 67, status |-> "uploading",
                 message |-> <<"Chunk uploaded", 2>>]

(* C22: with the WebSocket closed, the session of a chunked upload does not  *)
(* become Completed: no continuation of the chunk loop sets the status       *)
(* 'completed'.                                                              *)

C22_NoCompletionWithoutChannel ==
    [][(socket.readyState = "closed"
        /\ last' # last /\ last'.op \in {"chunkOk", "chunkFail"})
       => status'.status # "completed"]_vars

(* C23: handleUpload with no file or with a zero-length file issues no       *)
(* request and leaves the status as it was, and a file dialog closed without *)
(* a file leaves the file and the session unchanged. Checked under           *)
(* SpecEmptyFile, where the file selected has no bytes.                      *)

C23_InvalidInputRejected ==
    [][/\ (ClickUpload /\ (file = NoFile \/ file.size = 0))
            => UNCHANGED <<uploads, status>>
       /\ handleFileChange(NoFile)
            => UNCHANGED <<file, status, uploadedDocId, uploads>>]_vars

(* C24: the component opens one WebSocket per mount, at the path of its      *)
(* clientId: no handler constructs another one or changes clientId, and the  *)
(* WebSocket is closed once the component has unmounted.                     *)

C24_OneConnectionPerMount ==
    [][/\ opened = 1 /\ opened' = 1
       /\ clientId' = clientId
       /\ socket.url = clientId /\ socket'.url = clientId
       /\ ~mounted' => socket'.readyState = "closed"]_vars

\* unmounted after a chunked upload ran, the one WebSocket closed
C24_Witness ==
    /\ ~mounted
    /\ opened = 1
    /\ socket = [url |-> clientId, readyState |-> "closed"]
    /\ last.op = "chunkOk"
    /\ processingMsg # NoNotice

(* C25: when a chunked upload failed at chunk k >= 1 and Upload is clicked   *)
(* again for the same file, the new invocation starts at chunk k under the   *)
(* document id the server had assigned.                                      *)

C25_UploadResumes ==
    [][(last.op = "chunkFail" /\ FailedChunk >= 1
        /\ last.u.documentId # ""
        /\ last'.op = "upload" /\ last'.u.file = last.u.file)
       => /\ last'.u.req.chunk_index = FailedChunk
          /\ last'.u.req.document_id = last.u.documentId]_vars

(* C26: the form of chunk 0 carries document_id 'new', and the form of every *)
(* later chunk carries an id the server returned, never 'new', whatever the  *)
(* earlier responses held.                                                   *)

C26_ConfirmedIdAfterFirstChunk ==
    \A u \in Invocations :
       u.req.kind = "chunk"
         => IF u.req.chunk_index = 0
              THEN u.req.document_id = "new"
              ELSE u.req.document_id \in {"d1", "d2"}

(* C27: the running document id of a chunked upload is adopted from a        *)
(* response only while it is unassigned: once it has a value, a chunk        *)
(* response leaves it as it is.                                              *)

C27_IdAdoptedOnce ==
    [][\A k \in 1..Len(uploads) :
          (uploads[k].documentId # "" /\ uploads[k].pc = "chunk"
           /\ last' # last /\ last'.op = "chunkOk"
           /\ (\E id \in {"", "d1", "d2"} : ChunkOk(k, id)))
          => last'.u.documentId = uploads[k].documentId]_vars

(* C28: a WebSocket message that is not JSON, or whose event is not          *)
(* 'processing_complete', is dropped: it changes neither the status, the     *)
(* notice, the document id, the file nor any invocation, and the socket      *)
(* stays as it was, so that later messages are handled.                      *)

C28_MalformedMessageDropped ==
    [][\A m \in Messages :
          (~(m.json /\ m.event = "processing_complete") /\ OnMessage(m))
          => UNCHANGED <<status, processingMsg, uploadedDocId, file, uploads,
                         socket, last>>]_vars

\* a processing_complete message handled on the open socket during an upload
C28_Witness ==
    /\ socket.readyState = "open"
    /\ mounted
    /\ last.op = "onmessage"
    /\ processingMsg = <<(<<"doc", 1>>), "d2">>
    /\ status.status = "completed"
    /\ Len(uploads) = 2

(* C29: when a whole-file or chunk post fails with a detail in the error     *)
(* body, the message of the session is that detail; the default message is   *)
(* used only when there is no detail.                                        *)

C29_DetailSurfaced ==
    [][\A k \in 1..Len(uploads), d \in {"absent", "server detail"} :
          (last' # last /\ (WholeFail(k, d) \/ ChunkFail(k, d)))
          => IF d = "absent"
               THEN status'.message
                      \in {<<"Upload failed.", 0>>, <<"Chunk upload failed.", 0>>}
               ELSE status'.message = <<d, 0>>]_vars

(* C30: onmessage and the chunk loop do not block each other: a message is   *)
(* handled whenever the socket is open, also while a chunk post is awaited,  *)
(* it leaves every invocation and its request as they were, and an           *)
(* invocation whose chunks all succeed has sent chunks 0..N-1 in order.      *)

C30_ChannelAndChunksIndependent ==
    [][/\ \A m \in Messages : OnMessage(m) => UNCHANGED uploads
       /\ (mounted /\ socket.readyState = "open")
            => \A m \in Messages : ENABLED OnMessage(m)
       /\ (last'.op = "chunkOk" /\ last'.u.pc = "done")
            => /\ Len(last'.u.sent) = ChunksOf(last'.u)
               /\ \A j \in 1..Len(last'.u.sent) : last'.u.sent[j] = j - 1]_vars

\* a processing_complete message handled while chunk 1 is awaited
C30_Witness ==
    /\ last.op = "onmessage"
    /\ Len(uploads) = 1
    /\ uploads[1].req.kind = "chunk"
    /\ uploads[1].req.chunk_index = 1
    /\ uploads[1].sent = <<0, 1>>
    /\ status.status = "completed"

(* C31: selecting a file while the status is 'idle', 'completed' or 'error'  *)
(* leaves the status 'idle' with progress 0 and no message, the stored       *)
(* document id null and the file stored; it starts no request and touches    *)
(* neither clientId nor the WebSocket.                                       *)

C31_SelectResetsSession ==
    [][\A f \in Files :
          (handleFileChange(f)
           /\ status.status \in {"idle", "completed", "error"})
          => /\ status' = [progress |-> 0, status |-> "idle",
                           message |-> <<"undefined", 0>>]
             /\ uploadedDocId' = "null"
             /\ file' = f
             /\ UNCHANGED <<uploads, clientId, socket, opened>>]_vars

\* a file selected after an upload had completed and stored a document id
C31_Witness ==
    /\ last.op = "select"
    /\ last.sets = <<[progress |-> 0, status |-> "idle",
                      message |-> <<"undefined", 0>>]>>
    /\ status.status = "idle"
    /\ uploadedDocId = "null"
    /\ file \in Files
    /\ uploads = <<>>
    /\ processingMsg # <<>>

(* C32: every chunk form of one handleUpload invocation carries the same     *)
(* filename and the same total_chunks as the one before, and a chunk_index   *)
(* from 0 to total_chunks - 1, also when another file has been selected      *)
(* while the invocation awaits a response.                                   *)

C32_ChunkFormsOfOneFile ==
    [][uploads' # uploads
       => /\ \A k \in 1..Len(uploads') :
                uploads'[k].req.kind = "chunk"
                  => /\ uploads'[k].req.total_chunks = ChunksOf(uploads'[k])
                     /\ uploads'[k].req.chunk_index
                           \in 0..(uploads'[k].req.total_chunks - 1)
          \* invocation k has issued its next request
          /\ \A k \in 1..Len(uploads) :
                (Len(uploads') = Len(uploads)
                 /\ Len(uploads'[k].sent) = Len(uploads[k].sent) + 1)
                => /\ uploads'[k].req.filename = uploads[k].req.filename
                   /\ uploads'[k].req.total_chunks
                         = uploads[k].req.total_chunks
                   /\ uploads'[k].req.chunk_index
                         = uploads[k].req.chunk_index + 1]_vars

\* chunk 2 requested under the name of the file the invocation was started
\* with, after the other file was selected
C32_Witness ==
    /\ last.op = "chunkOk"
    /\ Len(uploads) = 1
    /\ uploads[1].req.chunk_index = 2
    /\ uploads[1].req.total_chunks = 3
    /\ uploads[1].req.filename = <<"big", 3>>
    /\ file.name = <<"edge", 1>>

(* C33: every handleUpload invocation ends. When every request is answered,  *)
(* an invocation issues at most ceil(size / chunk size) requests, one for a  *)
(* file that fits a chunk, the task that ends it leaves a status other than  *)
(* 'uploading', and the oldest running invocation returns again and again    *)
(* unless none is running or the component has unmounted. Checked under      *)
(* FairSpec.                                                                 *)

C33_UploadTerminates ==
    /\ [](\A u \in Invocations :
            Len(u.sent) <= IF u.file.size <= 5 * 1024 * 1024
                             THEN 1 ELSE ChunksOf(u))
    /\ []((last.op \in {"wholeOk", "wholeFail", "chunkOk", "chunkFail"}
           /\ last.u.pc = "done")
          => status.status # "uploading")
    /\ \/ []<>(~mounted \/ uploads = <<>>)
       \/ []<><<uploads # <<>> /\ uploads' = Without(1)>>_vars

\* an invocation ended by the failure of its second chunk
C33_Witness ==
    /\ last.op = "chunkFail"
    /\ last.u.pc = "done"
    /\ last.u.sent = <<0, 1>>
    /\ last.u.results = <<"ok", "fail">>
    /\ uploads = <<>>
    /\ status.status = "completed"

(* C34: in every reachable state the progress is an integer from 0 to 100,   *)
(* and so is every progress a task passes to setStatus.                      *)

C34_ProgressInRange ==
    /\ status.progress \in 0..100
    /\ \A j \in 1..Len(last.sets) : last.sets[j].progress \in 0..100

\* a failed chunk 1 of 3: its progress 67 was set before line 104 set 100
C34_Witness ==
    /\ last.op = "chunkFail"
    /\ Len(last.sets) = 2
    /\ last.sets[1].progress = 67
    /\ status.progress = 100

(* C35: handling a processing_complete message changes the status kind, its  *)
(* message and the notice only: the progress, the file, the stored document  *)
(* id and every invocation with its running document id stay as they were.   *)

C35_EventKeepsProgress ==
    [][\A m \in Messages :
          ((m.json /\ m.event = "processing_complete") /\ OnMessage(m))
          => /\ status'.progress = status.progress
             /\ status'.status = "completed"
             /\ processingMsg' = <<m.filename, m.document_id>>
             /\ UNCHANGED <<file, uploadedDocId, uploads>>]_vars

\* the message handled while chunk 1 is awaited under d1: progress stays 33
C35_Witness ==
    /\ last.op = "onmessage"
    /\ status = [progress |-> 33, status |-> "completed",
                 message |-> <<"Processing complete!", 0>>]
    /\ Len(uploads) = 1
    /\ uploads[1].documentId = "d1"
    /\ processingMsg # <<>>

====
